---- MODULE Spec2Model ----
(***************************************************************************)
(* Model of the cf-inventory App Proxy routes: the six near-duplicate      *)
(* location-stock loaders, their proxy-signature verification, the         *)
(* client-credentials token cache and the inventory lookup.                *)
(*                                                                         *)
(* Strings are sequences of one-character strings, so that sorting,        *)
(* concatenation, the digit test, trimming and upper-casing are computed.  *)
(***************************************************************************)
EXTENDS Integers, Sequences, FiniteSets, TLC

VARIABLES
    env,          \* process.env, read when the route modules load
    vcall,        \* the call of verifyProxySignature under study
    cachedToken,  \* part_002: let cachedToken
    now,          \* Date.now()
    ticks,        \* how often the clock advanced
    call,         \* per caller: its call of getAdminAccessToken
    lastDone,     \* the call of getAdminAccessToken that completed last
    exchanges,    \* token-exchange requests sent so far
    ncalls,       \* calls of getAdminAccessToken so far
    lpc,          \* where the loader invocation stands
    req,          \* the request being handled: route file and URL
    ctx,          \* the loader's locals, and the answers it received
    outcome,      \* how the loader invocation ended
    trace,        \* what the invocation did, in order
    nreq          \* requests received so far

tokenVars == <<cachedToken, now, ticks, call, lastDone, exchanges, ncalls>>

loaderVars == <<lpc, req, ctx, outcome, trace, nreq>>

vars == <<env, vcall, tokenVars, loaderVars>>

(***************************************************************************)
(* Characters and strings                                                  *)
(***************************************************************************)
Digits == <<"0", "1", "2", "3", "4", "5", "6", "7", "8", "9">>

Uppers == <<"A", "B", "C", "D", "E", "F", "G", "H", "I", "J", "K", "L", "M",
            "N", "O", "P", "Q", "R", "S", "T", "U", "V", "W", "X", "Y", "Z">>

Lowers == <<"a", "b", "c", "d", "e", "f", "g", "h", "i", "j", "k", "l", "m",
            "n", "o", "p", "q", "r", "s", "t", "u", "v", "w", "x", "y", "z">>

InSeq(s, ch) == \E i \in 1..Len(s) : s[i] = ch

IndexIn(s, ch) == CHOOSE i \in 1..Len(s) : s[i] = ch

\* "U+00E9" is the precomposed e-acute, "U+0301" the combining acute accent.
CodeUnit(ch) ==
    CASE InSeq(Digits, ch) -> 47 + IndexIn(Digits, ch)
      [] InSeq(Uppers, ch) -> 64 + IndexIn(Uppers, ch)
      [] InSeq(Lowers, ch) -> 96 + IndexIn(Lowers, ch)
      [] ch = " " -> 32
      [] ch = "-" -> 45
      [] ch = "." -> 46
      [] ch = "=" -> 61
      [] ch = "U+00E9" -> 233
      [] ch = "U+0301" -> 769

\* Number of bytes of one character in UTF-8 (Buffer.from(s, "utf8")).
Utf8Len(ch) == IF CodeUnit(ch) < 128 THEN 1 ELSE 2

RECURSIVE ByteLength(_)
ByteLength(s) == IF s = <<>> THEN 0 ELSE Utf8Len(Head(s)) + ByteLength(Tail(s))

\* Lexicographic comparison of two sequences of integers: -1, 0 or 1.
RECURSIVE LexCompare(_, _)
LexCompare(x, y) ==
    IF x = <<>> /\ y = <<>> THEN 0
    ELSE IF x = <<>> THEN -1
    ELSE IF y = <<>> THEN 1
    ELSE IF Head(x) < Head(y) THEN -1
    ELSE IF Head(x) > Head(y) THEN 1
    ELSE LexCompare(Tail(x), Tail(y))

CodeUnits(s) == [i \in 1..Len(s) |-> CodeUnit(s[i])]

\* Comparison by code unit: the byte/codepoint order of the specification.
codepointCompare(a, b) == LexCompare(CodeUnits(a), CodeUnits(b))

\* Canonical decomposition of a string.
RECURSIVE NFD(_)
NFD(s) ==
    IF s = <<>> THEN <<>>
    ELSE (IF Head(s) = "U+00E9" THEN <<"e", "U+0301">> ELSE <<Head(s)>>)
         \o NFD(Tail(s))

\* Collation weights of a decomposed character: primary (base letter,
\* case-blind), secondary (accent), tertiary (case).  0 is "ignorable".
Primary(ch) ==
    CASE InSeq(Digits, ch) -> 10 + IndexIn(Digits, ch)
      [] InSeq(Uppers, ch) -> 30 + IndexIn(Uppers, ch)
      [] InSeq(Lowers, ch) -> 30 + IndexIn(Lowers, ch)
      [] ch = " " -> 1
      [] ch = "-" -> 2
      [] ch = "." -> 3
      [] ch = "=" -> 4
      [] ch = "U+0301" -> 0

Secondary(ch) == IF ch = "U+0301" THEN 2 ELSE 1

Tertiary(ch) == IF InSeq(Uppers, ch) THEN 2 ELSE 1

RECURSIVE NonZero(_)
NonZero(w) ==
    IF w = <<>> THEN <<>>
    ELSE (IF Head(w) = 0 THEN <<>> ELSE <<Head(w)>>) \o NonZero(Tail(w))

\* String.prototype.localeCompare: multi-level collation of the decomposed
\* strings; canonically equivalent strings compare equal.
localeCompare(a, b) ==
    LET x == NFD(a)
        y == NFD(b)
        c1 == LexCompare(NonZero([i \in 1..Len(x) |-> Primary(x[i])]),
                         NonZero([i \in 1..Len(y) |-> Primary(y[i])]))
        c2 == LexCompare([i \in 1..Len(x) |-> Secondary(x[i])],
                         [i \in 1..Len(y) |-> Secondary(y[i])])
        c3 == LexCompare([i \in 1..Len(x) |-> Tertiary(x[i])],
                         [i \in 1..Len(y) |-> Tertiary(y[i])])
    IN  IF c1 # 0 THEN c1 ELSE IF c2 # 0 THEN c2 ELSE c3

\* Array.prototype.sort is stable: an entry goes after every entry that does
\* not compare greater than it.
RECURSIVE InsertEntry(_, _, _)
InsertEntry(e, s, byLocale) ==
    IF s = <<>> THEN <<e>>
    ELSE IF (IF byLocale THEN localeCompare(e[1], Head(s)[1])
                         ELSE codepointCompare(e[1], Head(s)[1])) < 0
         THEN <<e>> \o s
         ELSE <<Head(s)>> \o InsertEntry(e, Tail(s), byLocale)

RECURSIVE SortInto(_, _, _)
SortInto(todo, done, byLocale) ==
    IF todo = <<>> THEN done
    ELSE SortInto(Tail(todo), InsertEntry(Head(todo), done, byLocale), byLocale)

\* [...params.entries()].sort(([a], [b]) => a.localeCompare(b))
sorted(params) == SortInto(params, <<>>, TRUE)

\* sorted.map(([k, v]) => `${k}=${v}`).join("")
RECURSIVE message(_)
message(entries) ==
    IF entries = <<>> THEN <<>>
    ELSE Head(entries)[1] \o <<"=">> \o Head(entries)[2] \o message(Tail(entries))

(***************************************************************************)
(* Configuration (process.env) and request values                          *)
(***************************************************************************)
\* An environment variable or a query parameter: unset (undefined / null)
\* or a string, which may be empty.
Unset == [set |-> FALSE, val |-> <<>>]

Str(s) == [set |-> TRUE, val |-> s]

\* JavaScript truthiness of a string-or-undefined value.
Truthy(x) == x.set /\ x.val # <<>>

\* x || ""
OrEmpty(x) == IF Truthy(x) THEN x ELSE Str(<<>>)

sShhh == <<"s", "h", "h", "h">>
sOther == <<"k", "2">>

FullEnv ==
    [SHOPIFY_SHOP |-> Str(<<"s", "1">>),
     SHOPIFY_OFFLINE_TOKEN |-> Str(<<"o", "f", "f">>),
     SHOPIFY_ADMIN_TOKEN |-> Str(<<"a", "d", "m">>),
     SHOPIFY_API_KEY |-> Str(<<"i", "d">>),
     SHOPIFY_API_SECRET |-> Str(sShhh),
     UK_LOCATION_ID |-> Str(<<"1", "1">>),
     US_LOCATION_ID |-> Str(<<"2", "2">>)]

Routes == {"route_ts", "part_000", "part_001", "part_002a", "part_002b", "part_003"}

\* The value of the signature parameter.  "lit" is a literal string; "hmac"
\* is the 64-character hex rendering of HMAC-SHA256(key, msg), in lower case
\* unless upper.  HMAC is taken to be collision free, and no literal of the
\* model is the hex digest of anything.
NoSig == [kind |-> "absent", chars |-> <<>>, key |-> <<>>, msg |-> <<>>, upper |-> FALSE]

Lit(s) == [kind |-> "lit", chars |-> s, key |-> <<>>, msg |-> <<>>, upper |-> FALSE]

DigestLen == 64

\* crypto.createHmac("sha256", key).update(msg).digest("hex")
hmacHex(key, msg) ==
    [kind |-> "hmac", chars |-> <<>>, key |-> key, msg |-> msg, upper |-> FALSE]

UpperHex(d) == [d EXCEPT !.upper = TRUE]

\* Buffer.from(s, "utf8").length
BufferLength(s) == IF s.kind = "hmac" THEN DigestLen ELSE ByteLength(s.chars)

\* crypto.timingSafeEqual(a, b): a RangeError when the byte lengths differ.
timingSafeEqual(a, b) ==
    IF BufferLength(a) # BufferLength(b) THEN "throw"
    ELSE IF a = b THEN "true" ELSE "false"

\* The module constant holding the signing secret.
ProxySecret(route, e) ==
    IF route \in {"route_ts", "part_000", "part_001"}
    THEN OrEmpty(e.SHOPIFY_API_SECRET)
    ELSE e.SHOPIFY_API_SECRET

\* if (!PROXY_SECRET) return false;
SecretGuard(route) == route \in {"part_001", "part_003"}

\* Whether timingSafeEqual is called inside try { } catch { return false }.
CompareGuarded(route) == route # "part_002a"

\* verifyProxySignature(url): "true", "false", or "throw" when an exception
\* leaves the function.  url.params are the query entries other than
\* signature, in URL order; url.signature is params.get("signature").
verifyProxySignature(route, e, url) ==
    LET secret == ProxySecret(route, e)
        signature == url.signature
    IN  IF SecretGuard(route) /\ ~Truthy(secret) THEN "false"
        ELSE IF signature.kind = "absent" \/ BufferLength(signature) = 0 THEN "false"
        ELSE IF ~secret.set THEN "throw"
        ELSE LET digest == hmacHex(secret.val, message(sorted(url.params)))
                 eq == timingSafeEqual(digest, signature)
             IN  IF eq = "throw" /\ CompareGuarded(route) THEN "false" ELSE eq

\* No call of verifyProxySignature made yet.
IdleCall ==
    [done |-> FALSE, route |-> "route_ts",
     url |-> [params |-> <<>>, signature |-> NoSig], out |-> "none"]

(***************************************************************************)
(* getAdminAccessToken and its cache (part_002, second loader)             *)
(***************************************************************************)
FreshMarginMs == 60000

DefaultTtlMs == 1200000

\* cachedToken: null, or { token, expiresAtMs }.
NoCache == [present |-> FALSE, token |-> "", expiresAtMs |-> 0]

\* A field of a parsed JSON body: absent, a string or a number.
Absent == [kind |-> "absent", str |-> "", num |-> 0]

JStr(s) == [kind |-> "string", str |-> s, num |-> 0]

JNum(n) == [kind |-> "number", str |-> "", num |-> n]

\* JavaScript truthiness of a JSON field.
JTruthy(f) == (f.kind = "string" /\ f.str # "") \/ (f.kind = "number" /\ f.num # 0)

\* resp.ok
OkStatus(status) == status >= 200 /\ status <= 299

NoError == [where |-> "", status |-> 0, error |-> "", body |-> <<>>]

\* data ?? text, as the fields an error record keeps of the body.
BodyOf(resp) == <<resp.json, resp.access_token, resp.expires_in>>

\* Mutant: the margin compared with >= instead of >.
CacheFreshAtMargin(cache, t) ==
    cache.present /\ cache.expiresAtMs - t >= FreshMarginMs

\* Mutant: the expiry alone decides, without the margin.
CacheFreshNoMargin(cache, t) == cache.present /\ cache.expiresAtMs - t > 0

\* cachedToken && cachedToken.expiresAtMs - now > 60_000
CacheFresh(cache, t) == cache.present /\ cache.expiresAtMs - t > FreshMarginMs

\* Mutant: expires_in taken as milliseconds.
ttlMsUnscaled(expiresIn) ==
    IF expiresIn.kind = "number" /\ expiresIn.num > 0
    THEN expiresIn.num
    ELSE DefaultTtlMs

\* typeof expiresIn === "number" && expiresIn > 0 ? expiresIn * 1000 : 20 * 60 * 1000
ttlMs(expiresIn) ==
    IF expiresIn.kind = "number" /\ expiresIn.num > 0
    THEN expiresIn.num * 1000
    ELSE DefaultTtlMs

\* Mutant: a failed exchange drops the cached token.
exchangeOutcomeDropsCache(resp, t0, cache) ==
    IF resp.arrived /\ OkStatus(resp.status) /\ resp.json /\ JTruthy(resp.access_token)
    THEN [ok |-> TRUE, token |-> resp.access_token.str,
          cache |-> [present |-> TRUE, token |-> resp.access_token.str,
                     expiresAtMs |-> t0 + ttlMs(resp.expires_in)],
          err |-> NoError]
    ELSE [ok |-> FALSE, token |-> "", cache |-> NoCache,
          err |-> [where |-> "token_exchange", status |-> resp.status,
                   error |-> "", body |-> BodyOf(resp)]]

\* Mutant: an exchange overwrites the cache only with a later expiry.
exchangeOutcomeKeepsNewest(resp, t0, cache) ==
    IF resp.arrived /\ OkStatus(resp.status) /\ resp.json /\ JTruthy(resp.access_token)
    THEN [ok |-> TRUE, token |-> resp.access_token.str,
          cache |-> IF cache.present /\ cache.expiresAtMs >= t0 + ttlMs(resp.expires_in)
                    THEN cache
                    ELSE [present |-> TRUE, token |-> resp.access_token.str,
                          expiresAtMs |-> t0 + ttlMs(resp.expires_in)],
          err |-> NoError]
    ELSE [ok |-> FALSE, token |-> "", cache |-> cache,
          err |-> [where |-> "token_exchange", status |-> resp.status,
                   error |-> "", body |-> BodyOf(resp)]]

\* What getAdminAccessToken does with the answer of the token endpoint, t0
\* being the `now` it read on entry: the token it returns or the error it
\* throws, and the value of cachedToken afterwards.
exchangeOutcome(resp, t0, cache) ==
    IF ~resp.arrived
    THEN [ok |-> FALSE, token |-> "", cache |-> cache,
          err |-> [where |-> "fetch", status |-> 0, error |-> "fetch failed",
                   body |-> <<>>]]
    ELSE IF ~OkStatus(resp.status)
    THEN [ok |-> FALSE, token |-> "", cache |-> cache,
          err |-> [where |-> "token_exchange", status |-> resp.status,
                   error |-> "", body |-> BodyOf(resp)]]
    ELSE IF ~(resp.json /\ JTruthy(resp.access_token))
    THEN [ok |-> FALSE, token |-> "", cache |-> cache,
          err |-> [where |-> "token_exchange", status |-> 0,
                   error |-> "No access_token in response",
                   body |-> BodyOf(resp)]]
    ELSE [ok |-> TRUE, token |-> resp.access_token.str,
          cache |-> [present |-> TRUE, token |-> resp.access_token.str,
                     expiresAtMs |-> t0 + ttlMs(IF resp.json THEN resp.expires_in
                                                            ELSE Absent)],
          err |-> NoError]

\* Answers of POST /admin/oauth/access_token: no answer at all, a failure
\* status, or a success status with a body that may not parse, may lack
\* access_token and may carry expires_in of any type.
ExpiresInChoices == {Absent, JNum(0), JNum(-1), JStr("3600"), JNum(61)}

NoResponse ==
    [arrived |-> FALSE, status |-> 0, json |-> FALSE,
     access_token |-> Absent, expires_in |-> Absent]

ExchangeResponses ==
    {NoResponse}
    \cup {[arrived |-> TRUE, status |-> 401, json |-> j,
           access_token |-> Absent, expires_in |-> Absent] : j \in BOOLEAN}
    \cup {[arrived |-> TRUE, status |-> 200, json |-> FALSE,
           access_token |-> Absent, expires_in |-> Absent]}
    \cup {[arrived |-> TRUE, status |-> 200, json |-> TRUE,
           access_token |-> a, expires_in |-> JNum(61)] :
            a \in {Absent, JStr(""), JStr("tokB")}}
    \cup {[arrived |-> TRUE, status |-> 200, json |-> TRUE,
           access_token |-> JStr("tokA"), expires_in |-> x] :
            x \in ExpiresInChoices}

\* A response, or another way a loader invocation ends: "threw" when an
\* exception leaves the handler, "undefined" when it returns no response.
NoOut ==
    [kind |-> "none", status |-> 0, error |-> "", hint |-> FALSE,
     variantId |-> [nan |-> TRUE, num |-> 0], country |-> <<>>, shop |-> <<>>,
     locationId |-> [nan |-> TRUE, num |-> 0], qty |-> 0, available |-> FALSE]

NoRequest == [route |-> "route_ts", url |-> [params |-> <<>>, signature |-> NoSig]]

NoGql ==
    [arrived |-> FALSE, status |-> 0, json |-> FALSE, errors |-> "absent",
     available |-> Absent]

NoLookup ==
    [asked |-> FALSE, fails |-> FALSE, fails2 |-> FALSE, helper |-> FALSE,
     sessions |-> <<>>]

NoCtx ==
    [variantId |-> <<>>, country |-> <<>>, shop |-> <<>>, locationId |-> Unset,
     token |-> "", at |-> 0, exchAsked |-> FALSE, exch |-> NoResponse,
     gqlAsked |-> FALSE, gql |-> NoGql, lookup |-> NoLookup]

LoaderIdle ==
    /\ lpc = "idle"
    /\ req = NoRequest
    /\ ctx = NoCtx
    /\ outcome = NoOut
    /\ trace = <<>>
    /\ nreq = 0

Callers == {1, 2}

MaxCalls == 3

MaxTicks == 2

\* Clock steps: one second, and nineteen minutes less one second.
TickSteps == {1000, 1139000}

\* A caller of getAdminAccessToken: idle, or awaiting the token endpoint
\* with the `now` it read on entry; for the properties, the cache it found
\* and whether no other call has been in flight with it.
IdleCaller == [pc |-> "idle", at |-> 0, seen |-> NoCache, alone |-> TRUE]

\* The call of getAdminAccessToken that completed last: how it ended
\* ("returned" or "threw"), the `now` it read, whether it sent a token
\* exchange, what it returned or threw; for the properties, the cache it
\* found on entry (seen) and just before it ended (before), the answer it
\* got, and how the call that completed before it went (prior).
NoneDone ==
    [any |-> FALSE, pc |-> "idle", at |-> 0, sent |-> FALSE, ret |-> "",
     err |-> NoError, seen |-> NoCache, before |-> NoCache,
     resp |-> NoResponse, alone |-> TRUE, prior |-> "none"]

\* How a completed call went: served from the cache ("hit"), exchange
\* failed, exchange replaced a cached token ("refreshed") or filled an empty
\* cache ("filled").
Summary(done) ==
    IF ~done.any THEN "none"
    ELSE IF ~done.sent THEN "hit"
    ELSE IF done.pc = "threw" THEN "failed"
    ELSE IF done.seen.present THEN "refreshed" ELSE "filled"

TokenIdle ==
    /\ cachedToken = NoCache
    /\ now = 0
    /\ ticks = 0
    /\ call = [c \in Callers |-> IdleCaller]
    /\ lastDone = NoneDone
    /\ exchanges = 0
    /\ ncalls = 0

InitToken ==
    /\ env = FullEnv
    /\ vcall = IdleCall
    /\ TokenIdle
    /\ LoaderIdle

\* const now = Date.now(); the cache test; on a hit `return cachedToken.token`,
\* otherwise the fetch of the token endpoint is sent and awaited.  Callers
\* are interchangeable: the next call is given to the first idle one.
TokenCall(c) ==
    /\ ncalls < MaxCalls
    /\ call[c].pc = "idle"
    /\ \A d \in Callers : call[d].pc = "idle" => c <= d
    /\ ncalls' = ncalls + 1
    /\ IF CacheFresh(cachedToken, now)
       THEN /\ lastDone' = [NoneDone EXCEPT
                              !.any = TRUE, !.pc = "returned", !.at = now,
                              !.ret = cachedToken.token, !.seen = cachedToken,
                              !.before = cachedToken,
                              !.alone = \A d \in Callers : call[d].pc = "idle",
                              !.prior = Summary(lastDone)]
            /\ UNCHANGED <<call, exchanges>>
       ELSE /\ call' = [d \in Callers |->
                          IF d = c
                          THEN [pc |-> "fetching", at |-> now, seen |-> cachedToken,
                                alone |-> \A x \in Callers : call[x].pc = "idle"]
                          ELSE [call[d] EXCEPT !.alone = (call[d].pc = "idle")]]
            /\ exchanges' = exchanges + 1
            /\ UNCHANGED lastDone
    /\ UNCHANGED <<cachedToken, now, ticks>>

\* The token endpoint answers (or the fetch fails): the rest of
\* getAdminAccessToken runs.
TokenResponse(c) ==
    /\ call[c].pc = "fetching"
    /\ \E resp \in ExchangeResponses :
         LET out == exchangeOutcome(resp, call[c].at, cachedToken)
         IN  /\ cachedToken' = out.cache
             /\ lastDone' = [any |-> TRUE,
                             pc |-> IF out.ok THEN "returned" ELSE "threw",
                             at |-> call[c].at, sent |-> TRUE,
                             ret |-> out.token, err |-> out.err,
                             seen |-> call[c].seen, before |-> cachedToken,
                             resp |-> resp, alone |-> call[c].alone,
                             prior |-> Summary(lastDone)]
    /\ call' = [call EXCEPT ![c] = IdleCaller]
    /\ UNCHANGED <<now, ticks, exchanges, ncalls>>

\* Time passes.
Tick ==
    /\ ticks < MaxTicks
    /\ \E d \in TickSteps : now' = now + d
    /\ ticks' = ticks + 1
    /\ UNCHANGED <<cachedToken, call, lastDone, exchanges, ncalls>>

NextToken ==
    \/ \E c \in Callers : TokenCall(c) /\ UNCHANGED <<env, vcall, loaderVars>>
    \/ \E c \in Callers : TokenResponse(c) /\ UNCHANGED <<env, vcall, loaderVars>>
    \/ Tick /\ UNCHANGED <<env, vcall, loaderVars>>

SpecToken == InitToken /\ [][NextToken]_vars

(***************************************************************************)
(* The loaders                                                             *)
(***************************************************************************)
kVariant == <<"v", "a", "r", "i", "a", "n", "t">>
kCountry == <<"c", "o", "u", "n", "t", "r", "y">>
kShop == <<"s", "h", "o", "p">>

\* url.searchParams.get(key): the first value of the key, or null.
RECURSIVE get(_, _)
get(params, key) ==
    IF params = <<>> THEN Unset
    ELSE IF Head(params)[1] = key THEN Str(Head(params)[2])
    ELSE get(Tail(params), key)

\* String.prototype.toUpperCase
toUpperCase(s) ==
    [i \in 1..Len(s) |-> IF InSeq(Lowers, s[i]) THEN Uppers[IndexIn(Lowers, s[i])]
                                                ELSE s[i]]

\* String.prototype.trim
RECURSIVE trimStart(_)
trimStart(s) == IF s # <<>> /\ Head(s) = " " THEN trimStart(Tail(s)) ELSE s

RECURSIVE trimEnd(_)
trimEnd(s) ==
    IF s # <<>> /\ s[Len(s)] = " " THEN trimEnd(SubSeq(s, 1, Len(s) - 1)) ELSE s

trim(s) == trimEnd(trimStart(s))

\* /^\d+$/.test(s)
isDigits(s) == s # <<>> /\ \A i \in 1..Len(s) : InSeq(Digits, s[i])

\* Mutant: every other country falls to the US location.
locationForDefaultsUS(country, e) ==
    IF country = <<"G", "B">> \/ country = <<"U", "K">> THEN e.UK_LOCATION_ID
    ELSE e.US_LOCATION_ID

\* country === "GB" || country === "UK" ? UK : country === "US" ? US : UK
locationFor(country, e) ==
    IF country = <<"G", "B">> \/ country = <<"U", "K">> THEN e.UK_LOCATION_ID
    ELSE IF country = <<"U", "S">> THEN e.US_LOCATION_ID
    ELSE e.UK_LOCATION_ID

\* The names a loader's own sanity check finds missing.
missingEnv(route, e) ==
    CASE route = "route_ts" ->
           {n \in {"SHOPIFY_SHOP", "SHOPIFY_OFFLINE_TOKEN"} : ~Truthy(e[n])}
      [] route = "part_000" ->
           {n \in {"SHOPIFY_SHOP", "SHOPIFY_API_SECRET", "SHOPIFY_OFFLINE_TOKEN",
                   "UK_LOCATION_ID", "US_LOCATION_ID"} : ~Truthy(e[n])}
      [] route = "part_002b" ->
           {n \in {"SHOPIFY_SHOP", "SHOPIFY_API_KEY", "SHOPIFY_API_SECRET",
                   "UK_LOCATION_ID", "US_LOCATION_ID"} : ~Truthy(e[n])}
      [] OTHER -> {}

missingEnvError(route) ==
    CASE route = "route_ts" -> "Missing SHOPIFY_SHOP or HOST token"
      [] route = "part_000" -> "Missing env vars"
      [] OTHER -> "Server misconfigured"

\* Whether the loader reads shop from the URL.
needsShop(route) == route \in {"part_001", "part_003"}

\* Mutant: every error is answered as a 400.
ErrorResponseAs400(status, error) ==
    [NoOut EXCEPT !.kind = "response", !.status = 400, !.error = error]

\* Response.json({ error }, { status })
ErrorResponse(status, error) ==
    [NoOut EXCEPT !.kind = "response", !.status = status, !.error = error]

\* The loader up to its first await: it ends (done) with an outcome, or
\* goes on with its locals to resolve a token and query the inventory.
loaderEntry(route, e, url) ==
    LET verified == verifyProxySignature(route, e, url)
        variantId == OrEmpty(get(url.params, kVariant)).val
        country == toUpperCase(OrEmpty(get(url.params, kCountry)).val)
        shop == trim(OrEmpty(get(url.params, kShop)).val)
        locationId == locationFor(country, e)
        End(o, tr) == [done |-> TRUE, out |-> o, ctx |-> NoCtx, trace |-> tr]
    IN  IF missingEnv(route, e) # {}
        THEN End(ErrorResponse(500, missingEnvError(route)), <<>>)
        ELSE IF route = "part_000"
        THEN End([NoOut EXCEPT !.kind = "undefined"], <<>>)
        ELSE IF verified = "throw"
        THEN End([NoOut EXCEPT !.kind = "threw"], <<"verify">>)
        ELSE IF verified = "false"
        THEN End(ErrorResponse(401, "Invalid signature"), <<"verify">>)
        ELSE IF needsShop(route) /\ shop = <<>>
        THEN End(ErrorResponse(400, "Missing shop"), <<"verify">>)
        ELSE IF ~isDigits(variantId)
        THEN End(ErrorResponse(400, "Missing/invalid variant"), <<"verify">>)
        ELSE IF route = "part_003" /\ ~Truthy(locationId)
        THEN End(ErrorResponse(500, "Missing location env vars"), <<"verify">>)
        ELSE [done |-> FALSE, out |-> NoOut,
              ctx |-> [NoCtx EXCEPT !.variantId = variantId, !.country = country,
                                    !.shop = IF needsShop(route) THEN shop ELSE <<>>,
                                    !.locationId = locationId],
              trace |-> <<"verify">>]

\* The first stored session that is offline and has a token, or none.
RECURSIVE firstOffline(_)
firstOffline(sessions) ==
    IF sessions = <<>> THEN ""
    ELSE IF ~Head(sessions).isOnline /\ Head(sessions).accessToken # ""
    THEN Head(sessions).accessToken
    ELSE firstOffline(Tail(sessions))

\* part_001: findSessionsByShop may reject; the exception is not caught.
getOfflineAccessTokenForShop(lookup) ==
    IF lookup.fails THEN [threw |-> TRUE, token |-> ""]
    ELSE [threw |-> FALSE, token |-> firstOffline(lookup.sessions)]

\* sessionStorage.loadSession(id)?.accessToken || null, the storage holding
\* at most one session under an id.
loadSession(sessions) ==
    IF sessions = <<>> THEN "" ELSE Head(sessions).accessToken

\* part_003: the helper's offline id when the helper exists, then
\* `offline_${shop}`; each attempt inside its own try { } catch {}.
loadOfflineAccessToken(lookup) ==
    LET first == IF lookup.helper /\ ~lookup.fails
                 THEN loadSession(lookup.sessions) ELSE ""
        second == IF ~lookup.fails2 THEN loadSession(lookup.sessions) ELSE ""
    IN  [threw |-> FALSE, token |-> IF first # "" THEN first ELSE second]

\* getStockAtLocation with the answer of the Admin API: the quantity, or the
\* exception thrown.
getStockAtLocation(route, resp) ==
    IF ~resp.arrived THEN [ok |-> FALSE, qty |-> 0]
    ELSE IF route = "part_002a" /\ ~resp.json THEN [ok |-> FALSE, qty |-> 0]
    ELSE IF ~OkStatus(resp.status)
            \/ (resp.json /\ resp.errors \in {"empty", "nonempty"})
    THEN [ok |-> FALSE, qty |-> 0]
    ELSE [ok |-> TRUE,
          qty |-> IF resp.json /\ resp.available.kind = "number"
                  THEN resp.available.num ELSE 0]

upstreamError(route) ==
    IF route = "part_002b" THEN "Inventory proxy failed" ELSE "Admin API error"

noTokenError(route) ==
    IF route = "part_001" THEN "No offline session stored for shop"
    ELSE "No offline session token found for shop"

\* Number(x) of a string of digits, of the empty string (0), of anything
\* else and of undefined (NaN, which JSON.stringify writes as null).
RECURSIVE digitsValue(_)
digitsValue(s) ==
    IF s = <<>> THEN 0
    ELSE 10 * digitsValue(SubSeq(s, 1, Len(s) - 1)) + (IndexIn(Digits, s[Len(s)]) - 1)

Number(x) ==
    IF ~x.set THEN [nan |-> TRUE, num |-> 0]
    ELSE IF x.val = <<>> \/ isDigits(x.val) THEN [nan |-> FALSE, num |-> digitsValue(x.val)]
    ELSE [nan |-> TRUE, num |-> 0]

\* The 200 response.
StockResponse(c, qty) ==
    [NoOut EXCEPT !.kind = "response", !.status = 200,
                  !.variantId = Number(Str(c.variantId)),
                  !.country = c.country, !.shop = c.shop,
                  !.locationId = Number(c.locationId),
                  !.qty = qty, !.available = (qty > 0)]

(***************************************************************************)
(* Inputs of the loaders                                                   *)
(***************************************************************************)
MaxRequests == 2

MaxSessions == 2

JNull == [kind |-> "null", str |-> "", num |-> 0]

\* Answers of POST /admin/api/<version>/graphql.json.
GqlResponses ==
    {NoGql}
    \cup {[arrived |-> TRUE, status |-> 500, json |-> j, errors |-> "absent",
           available |-> Absent] : j \in BOOLEAN}
    \cup {[arrived |-> TRUE, status |-> 200, json |-> FALSE, errors |-> "absent",
           available |-> Absent]}
    \cup {[arrived |-> TRUE, status |-> 200, json |-> TRUE, errors |-> x,
           available |-> JNum(5)] : x \in {"null", "empty", "nonempty"}}
    \cup {[arrived |-> TRUE, status |-> 200, json |-> TRUE, errors |-> "absent",
           available |-> a] : a \in {Absent, JNull, JNum(0), JNum(5), JStr("5")}}

SessionChoices ==
    {[isOnline |-> TRUE, accessToken |-> "onA"],
     [isOnline |-> FALSE, accessToken |-> "offA"],
     [isOnline |-> FALSE, accessToken |-> "offB"],
     [isOnline |-> FALSE, accessToken |-> ""]}

SessionLists == UNION {[1..n -> SessionChoices] : n \in 0..MaxSessions}

\* What the session storage does for one lookup: the sessions it holds for
\* the shop (part_001) or under the shop's offline id (part_003), whether its
\* calls reject, whether the offline-id helper exists.
Lookups(route) ==
    IF route = "part_001"
    THEN {[asked |-> TRUE, fails |-> TRUE, fails2 |-> FALSE, helper |-> FALSE,
           sessions |-> <<>>]}
         \cup {[asked |-> TRUE, fails |-> FALSE, fails2 |-> FALSE, helper |-> FALSE,
                sessions |-> s] : s \in SessionLists}
    ELSE {[asked |-> TRUE, fails |-> f[1], fails2 |-> f[2], helper |-> h,
           sessions |-> s] :
            f \in {<<TRUE, FALSE>>, <<FALSE, TRUE>>, <<FALSE, FALSE>>},
            h \in BOOLEAN, s \in {l \in SessionLists : Len(l) <= 1}}
         \cup {[asked |-> TRUE, fails |-> TRUE, fails2 |-> TRUE, helper |-> h,
                sessions |-> <<>>] : h \in BOOLEAN}

EnvNames ==
    {"SHOPIFY_SHOP", "SHOPIFY_OFFLINE_TOKEN", "SHOPIFY_ADMIN_TOKEN",
     "SHOPIFY_API_KEY", "SHOPIFY_API_SECRET", "UK_LOCATION_ID", "US_LOCATION_ID"}

\* Deployments: fully configured, one variable unset, or an empty secret.
LoaderEnvs ==
    {FullEnv, [FullEnv EXCEPT !.SHOPIFY_API_SECRET = Str(<<>>)]}
    \cup {[FullEnv EXCEPT ![n] = Unset] : n \in EnvNames}

Optional(key, values) == {<<>>} \cup {<<<<key, v>>>> : v \in values}

\* Query strings: every variant with every shop, and a well-formed request
\* from each country.
LoaderParams ==
    {v \o s :
       v \in Optional(kVariant, {<<"1", "2">>, <<"1", "a">>}),
       s \in Optional(kShop, {<<" ">>, <<"s", "1">>})}
    \cup {<<<<kVariant, <<"1", "2">>>>, <<kCountry, c>>, <<kShop, <<"s", "1">>>>>> :
            c \in {<<"u", "k">>, <<"G", "B">>, <<"U", "s">>, <<"F", "R">>}}

\* Signatures sent with a request: none, a short literal, the digest under
\* the configured secret (the empty key when none is configured), and the
\* digest under another key.
LoaderSigs(e, params) ==
    {NoSig, Lit(<<"z", "z">>),
     hmacHex(OrEmpty(e.SHOPIFY_API_SECRET).val, message(sorted(params))),
     hmacHex(sOther, message(sorted(params)))}

(***************************************************************************)
(* One request at a time through a loader                                  *)
(***************************************************************************)
\* A deployment serves one of the route modules (req.route), whose
\* module-level state lives as long as the process.
Init ==
    /\ env \in LoaderEnvs
    /\ vcall = IdleCall
    /\ TokenIdle
    /\ lpc = "idle"
    /\ \E route \in Routes : req = [NoRequest EXCEPT !.route = route]
    /\ ctx = NoCtx
    /\ outcome = NoOut
    /\ trace = <<>>
    /\ nreq = 0

\* Where the access token of a loader without session storage comes from.
envToken(route) ==
    IF route = "route_ts" THEN "SHOPIFY_OFFLINE_TOKEN" ELSE "SHOPIFY_ADMIN_TOKEN"

\* A request arrives and the loader runs to its first await: it has answered
\* (or thrown, or returned nothing), or it awaits the session storage, the
\* token endpoint or the Admin API.
Receive(route, url) ==
    /\ lpc = "idle"
    /\ nreq < MaxRequests
    /\ nreq' = nreq + 1
    /\ req' = [route |-> route, url |-> url]
    /\ LET r == loaderEntry(route, env, url)
       IN  IF r.done
           THEN /\ lpc' = "done"
                /\ outcome' = r.out
                /\ ctx' = r.ctx
                /\ trace' = r.trace
                /\ UNCHANGED exchanges
           ELSE /\ outcome' = NoOut
                /\ IF needsShop(route)
                   THEN /\ lpc' = "sessions"
                        /\ ctx' = r.ctx
                        /\ trace' = r.trace \o <<"sessions">>
                        /\ UNCHANGED exchanges
                   ELSE IF route = "part_002b"
                   THEN IF CacheFresh(cachedToken, now)
                        THEN /\ lpc' = "query"
                             /\ ctx' = [r.ctx EXCEPT !.token = cachedToken.token]
                             /\ trace' = r.trace \o <<"query">>
                             /\ UNCHANGED exchanges
                        ELSE /\ lpc' = "exchange"
                             /\ ctx' = [r.ctx EXCEPT !.at = now]
                             /\ trace' = r.trace \o <<"exchange">>
                             /\ exchanges' = exchanges + 1
                   ELSE /\ lpc' = "query"
                        /\ ctx' = [r.ctx EXCEPT !.token = envToken(route)]
                        /\ trace' = r.trace \o <<"query">>
                        /\ UNCHANGED exchanges
    /\ UNCHANGED <<env, vcall, cachedToken, now, ticks, call, lastDone, ncalls>>

\* The deployed loader receives any of the requests.
Request ==
    /\ lpc = "idle"
    /\ nreq < MaxRequests
    /\ \E params \in LoaderParams :
         \E sig \in LoaderSigs(env, params) :
           Receive(req.route, [params |-> params, signature |-> sig])

\* part_001 and part_003: the session storage answers.
SessionsAnswer ==
    /\ lpc = "sessions"
    /\ \E lookup \in Lookups(req.route) :
         LET found == IF req.route = "part_001"
                      THEN getOfflineAccessTokenForShop(lookup)
                      ELSE loadOfflineAccessToken(lookup)
         IN  /\ ctx' = [ctx EXCEPT !.lookup = lookup, !.token = found.token]
             /\ IF found.threw
                THEN /\ lpc' = "done"
                     /\ outcome' = [NoOut EXCEPT !.kind = "threw"]
                     /\ UNCHANGED trace
                ELSE IF found.token = ""
                THEN /\ lpc' = "done"
                     /\ outcome' =
                          [ErrorResponse(401, noTokenError(req.route))
                             EXCEPT !.hint = (req.route = "part_001"),
                                    !.shop = ctx.shop]
                     /\ UNCHANGED trace
                ELSE /\ lpc' = "query"
                     /\ outcome' = NoOut
                     /\ trace' = trace \o <<"query">>
    /\ UNCHANGED <<env, vcall, tokenVars, req, nreq>>

\* part_002 (second loader): the token endpoint answers and the rest of
\* getAdminAccessToken runs.
ExchangeAnswer ==
    /\ lpc = "exchange"
    /\ \E resp \in ExchangeResponses :
         LET o == exchangeOutcome(resp, ctx.at, cachedToken)
         IN  /\ cachedToken' = o.cache
             /\ ctx' = [ctx EXCEPT !.exchAsked = TRUE, !.exch = resp,
                                   !.token = o.token]
             /\ IF o.ok
                THEN /\ lpc' = "query"
                     /\ outcome' = NoOut
                     /\ trace' = trace \o <<"query">>
                ELSE /\ lpc' = "done"
                     /\ outcome' = ErrorResponse(502, upstreamError(req.route))
                     /\ UNCHANGED trace
    /\ UNCHANGED <<env, vcall, now, ticks, call, lastDone, exchanges, ncalls,
                   req, nreq>>

\* The Admin API answers the inventory query (or the fetch fails).  Of the
\* token's resolution only the token is still a local of the loader.
QueryAnswer ==
    /\ lpc = "query"
    /\ \E resp \in GqlResponses :
         LET r == getStockAtLocation(req.route, resp)
         IN  /\ ctx' = [ctx EXCEPT !.gqlAsked = TRUE, !.gql = resp,
                                   !.lookup = NoLookup, !.exchAsked = FALSE,
                                   !.exch = NoResponse]
             /\ outcome' = IF r.ok THEN StockResponse(ctx, r.qty)
                           ELSE ErrorResponse(502, upstreamError(req.route))
    /\ lpc' = "done"
    /\ UNCHANGED <<env, vcall, tokenVars, req, trace, nreq>>

\* The outcome is delivered; the process waits for the next request.
Finish ==
    /\ lpc = "done"
    /\ lpc' = "idle"
    /\ req' = [req EXCEPT !.url = NoRequest.url]
    /\ ctx' = NoCtx
    /\ outcome' = NoOut
    /\ trace' = <<>>
    /\ UNCHANGED <<env, vcall, tokenVars, nreq>>

\* Time passes between requests.  The loaders read the clock only to test a
\* cached token, so it is advanced once there is one.
TickIdle ==
    /\ lpc = "idle"
    /\ nreq < MaxRequests
    /\ cachedToken.present
    /\ Tick
    /\ UNCHANGED <<env, vcall, loaderVars>>

Next ==
    \/ Request
    \/ SessionsAnswer
    \/ ExchangeAnswer
    \/ QueryAnswer
    \/ Finish
    \/ TickIdle

Spec == Init /\ [][Next]_vars

(***************************************************************************)
(* Inputs of the signature check                                           *)
(***************************************************************************)
MaxParams == 2

kA == <<"a">>
kB == <<"B">>
kBar == <<"b", "a", "r">>
kFoo == <<"f", "o", "o">>
kEacute == <<"c", "U+00E9">>
kEcombining == <<"c", "e", "U+0301">>

VerifyKeys == {kA, kB, kBar, kFoo, kEacute, kEcombining}

VerifyVals == {<<"1">>, <<"2">>}

VerifyEnvs ==
    {FullEnv,
     [FullEnv EXCEPT !.SHOPIFY_API_SECRET = Unset],
     [FullEnv EXCEPT !.SHOPIFY_API_SECRET = Str(<<>>)]}

ParamLists ==
    UNION {[1..n -> VerifyKeys \X VerifyVals] : n \in 0..MaxParams}

\* Signatures a client may send with the given parameters: none, empty,
\* short hex, 64 non-hex characters, 32 two-byte characters, and digests
\* under several keys of the parameters in several orders.
SigChoices(params) ==
    {NoSig, Lit(<<>>), Lit(<<"a", "b", "c">>), Lit(<<"z", "z">>),
     Lit([i \in 1..DigestLen |-> "z"]),
     Lit([i \in 1..(DigestLen \div 2) |-> "U+00E9"])}
    \cup {hmacHex(k, m) :
            k \in {<<>>, sShhh, sOther},
            m \in {message(sorted(params)),
                   message(SortInto(params, <<>>, FALSE)),
                   message(params)}}
    \cup {UpperHex(hmacHex(sShhh, message(sorted(params))))}

InitVerify ==
    /\ env \in VerifyEnvs
    /\ vcall = IdleCall
    /\ TokenIdle
    /\ LoaderIdle

\* One call of verifyProxySignature of one route file on one URL.
VerifyCall ==
    /\ ~vcall.done
    /\ \E route \in Routes, params \in ParamLists :
         \E sig \in SigChoices(params) :
           LET url == [params |-> params, signature |-> sig]
           IN  /\ vcall' = [done |-> TRUE, route |-> route, url |-> url,
                            out |-> verifyProxySignature(route, env, url)]
               /\ UNCHANGED <<env, tokenVars, loaderVars>>

NextVerify == VerifyCall

SpecVerify == InitVerify /\ [][NextVerify]_vars

(***************************************************************************)
(* Claims about verifyProxySignature (checked under SpecVerify)            *)
(***************************************************************************)
HexDigits == {"0", "1", "2", "3", "4", "5", "6", "7", "8", "9",
              "a", "b", "c", "d", "e", "f", "A", "B", "C", "D", "E", "F"}

IsHexString(s) == s.kind = "hmac" \/ \A i \in 1..Len(s.chars) : s.chars[i] \in HexDigits

CharLength(s) == IF s.kind = "hmac" THEN DigestLen ELSE Len(s.chars)

\* The orders in which the same parameters can appear in the URL.
Reorderings(params) ==
    LET n == Len(params)
        bij == {f \in [1..n -> 1..n] : \A i, j \in 1..n : f[i] = f[j] => i = j}
    IN  {[i \in 1..n |-> params[f[i]]] : f \in bij}

\* The query is a mapping: no key occurs twice.
DistinctKeys(params) ==
    \A i, j \in 1..Len(params) : params[i][1] = params[j][1] => i = j

\* C1: with no signature parameter, a signature that is not hex, or one whose
\* length differs from the 64-character digest, verifyProxySignature returns
\* false and does not throw, in every route variant.
C1_MalformedSignatureIsFalse ==
    (/\ vcall.done
     /\ \/ vcall.url.signature.kind = "absent"
        \/ ~IsHexString(vcall.url.signature)
        \/ CharLength(vcall.url.signature) # DigestLen)
    => vcall.out = "false"

\* C2: with no signing secret configured (unset or empty),
\* verifyProxySignature returns false whatever signature is supplied.
C2_NoSecretAlwaysFalse ==
    (vcall.done /\ ~Truthy(env.SHOPIFY_API_SECRET)) => vcall.out = "false"

\* C3: the signed message is the parameters ordered by key in codepoint
\* order, each as key=value, joined with no separator; verification succeeds
\* iff the lowercase-hex HMAC-SHA256 of that message under the secret is
\* byte-identical to the supplied signature.
C3_SignsCodepointSortedMessage ==
    (vcall.done /\ Truthy(env.SHOPIFY_API_SECRET))
    => (vcall.out = "true"
        <=> vcall.url.signature
              = hmacHex(env.SHOPIFY_API_SECRET.val,
                        message(SortInto(vcall.url.params, <<>>, FALSE))))

\* C4: for a fixed secret and fixed key/value pairs with signature, the
\* result of verifyProxySignature is the same for every order in which the
\* parameters appear in the URL.
C4_OrderOfParametersIrrelevant ==
    (/\ vcall.done
     /\ Truthy(env.SHOPIFY_API_SECRET)
     /\ DistinctKeys(vcall.url.params))
    => \A p \in Reorderings(vcall.url.params) :
         verifyProxySignature(vcall.route, env,
                              [params |-> p, signature |-> vcall.url.signature])
           = vcall.out

(***************************************************************************)
(* Claims about getAdminAccessToken (checked under SpecToken)              *)
(***************************************************************************)
\* A step in which a call of getAdminAccessToken begins.
CallBegins == ncalls' = ncalls + 1

\* The call that begins in this step is served from the cache.
ServedFromCache == exchanges' = exchanges

\* The cached token is within 60 seconds of its expiry at time t.
WithinMargin(cache, t) == cache.present /\ cache.expiresAtMs - t <= 60000

\* More than 60 seconds remain before the cached token's expiry at time t.
BeyondMargin(cache, t) == cache.present /\ cache.expiresAtMs - t > 60000

\* The token endpoint answered with a success status and an access_token.
GoodExchange(resp) ==
    /\ resp.arrived
    /\ resp.status \in 200..299
    /\ resp.json
    /\ resp.access_token.kind = "string"
    /\ resp.access_token.str # ""

\* The lifetime the specification gives a token: expires_in seconds when it
\* is a positive number, 20 minutes otherwise.
SpecTtl(resp) ==
    IF resp.expires_in.kind = "number" /\ resp.expires_in.num > 0
    THEN resp.expires_in.num * 1000
    ELSE 20 * 60 * 1000

\* The two calls are consecutive: nothing was in flight during the first,
\* and nothing is when the second begins.
Consecutive == lastDone.any /\ lastDone.alone /\ \A c \in Callers : call[c].pc = "idle"

\* C5: a call returns the cached token without a token exchange iff a cached
\* token exists with more than 60,000 ms left at the time of the call;
\* otherwise it sends one exchange.  A call served from the cache right
\* after another one returns the identical token.
C5_CacheHitIffFresh ==
    [][CallBegins =>
        /\ ServedFromCache <=> BeyondMargin(cachedToken, now)
        /\ ServedFromCache =>
             /\ lastDone'.any /\ lastDone'.pc = "returned" /\ ~lastDone'.sent
             /\ lastDone'.ret = cachedToken.token
             /\ cachedToken' = cachedToken
        /\ ~ServedFromCache =>
             /\ exchanges' = exchanges + 1
             /\ \E c \in Callers : call[c].pc = "idle" /\ call'[c].pc = "fetching"
        /\ (ServedFromCache /\ lastDone.any /\ ~lastDone.sent)
             => lastDone'.ret = lastDone.ret]_vars

C5_Witness ==
    /\ lastDone.any /\ ~lastDone.sent /\ lastDone.prior = "hit"
    /\ lastDone.ret = "tokA"
    /\ lastDone.seen.expiresAtMs - lastDone.at = 61000

\* C6 as stated: of two consecutive calls made when the cached token is
\* within 60 seconds of its expiry, the first exchanges and the second is
\* served from the cache; two calls made more than 60 seconds before expiry
\* exchange nothing.
C6_StaleCacheOneExchange ==
    [][(CallBegins /\ Consecutive) =>
        /\ WithinMargin(lastDone.seen, lastDone.at)
             => (lastDone.sent /\ ServedFromCache)
        /\ (BeyondMargin(lastDone.seen, lastDone.at) /\ BeyondMargin(lastDone.seen, now))
             => (~lastDone.sent /\ ServedFromCache)]_vars

\* C6 as amended: the second call is served from the cache, one exchange in
\* total, exactly when the first call's exchange succeeded and the token it
\* stored has more than 60,000 ms left at the second call; otherwise the
\* second call exchanges again.
C6_StaleCacheOneExchangeIfRefreshed ==
    [][(CallBegins /\ Consecutive) =>
        /\ WithinMargin(lastDone.seen, lastDone.at)
             => /\ lastDone.sent
                /\ ServedFromCache
                     <=> /\ GoodExchange(lastDone.resp)
                         /\ lastDone.at + SpecTtl(lastDone.resp) - now > 60000
        /\ (BeyondMargin(lastDone.seen, lastDone.at) /\ BeyondMargin(lastDone.seen, now))
             => (~lastDone.sent /\ ServedFromCache)]_vars

C6_Witness ==
    /\ lastDone.any /\ ~lastDone.sent /\ lastDone.alone
    /\ lastDone.prior = "refreshed"
    /\ exchanges = 2 /\ ncalls = 3

\* C7: after a successful exchange the cache holds the token with
\* expiresAtMs = now + ttl, whatever it held before, ttl being expires_in *
\* 1000 for a positive number and 1,200,000 ms otherwise, and the call
\* returns that token.
C7_ExchangeStoresToken ==
    (lastDone.any /\ lastDone.sent /\ GoodExchange(lastDone.resp))
    => /\ cachedToken = [present |-> TRUE,
                         token |-> lastDone.resp.access_token.str,
                         expiresAtMs |-> lastDone.at + SpecTtl(lastDone.resp)]
       /\ lastDone.pc = "returned"
       /\ lastDone.ret = lastDone.resp.access_token.str

C7_Witness ==
    /\ lastDone.any /\ lastDone.sent /\ lastDone.pc = "returned"
    /\ lastDone.before.present /\ lastDone.before.token # lastDone.ret
    /\ lastDone.resp.expires_in = JNum(61)
    /\ lastDone.at > 0

\* C8: when the exchange answers with a non-success status, or a success
\* status without access_token, the call fails with an error carrying the
\* status and body, returns no token and leaves the cache as it was.
C8_FailedExchangeKeepsCache ==
    (lastDone.any /\ lastDone.sent /\ lastDone.resp.arrived
       /\ ~GoodExchange(lastDone.resp))
    => /\ lastDone.pc = "threw"
       /\ lastDone.ret = ""
       /\ cachedToken = lastDone.before
       /\ lastDone.err.where = "token_exchange"
       /\ lastDone.err.body = BodyOf(lastDone.resp)
       /\ lastDone.resp.status \notin 200..299
            => lastDone.err.status = lastDone.resp.status
       /\ lastDone.alone => cachedToken = lastDone.seen

C8_Witness ==
    /\ lastDone.any /\ lastDone.pc = "threw" /\ lastDone.resp.arrived
    /\ lastDone.resp.status = 200
    /\ lastDone.before.present

(***************************************************************************)
(* Claims about the loaders' responses                                     *)
(***************************************************************************)
Answered == lpc = "done"

\* The configuration a route module reads without a default.
RequiredEnv(route) ==
    CASE route \in {"route_ts", "part_000"} ->
           {"SHOPIFY_SHOP", "SHOPIFY_OFFLINE_TOKEN", "SHOPIFY_API_SECRET",
            "UK_LOCATION_ID", "US_LOCATION_ID"}
      [] route = "part_002a" ->
           {"SHOPIFY_SHOP", "SHOPIFY_ADMIN_TOKEN", "SHOPIFY_API_SECRET",
            "UK_LOCATION_ID", "US_LOCATION_ID"}
      [] route = "part_002b" ->
           {"SHOPIFY_SHOP", "SHOPIFY_API_KEY", "SHOPIFY_API_SECRET",
            "UK_LOCATION_ID", "US_LOCATION_ID"}
      [] OTHER -> {"SHOPIFY_API_SECRET", "UK_LOCATION_ID", "US_LOCATION_ID"}

ConfigMissing == \E n \in RequiredEnv(req.route) : ~Truthy(env[n])

SignatureBad == verifyProxySignature(req.route, env, req.url) # "true"

InputBad ==
    \/ ~isDigits(OrEmpty(get(req.url.params, kVariant)).val)
    \/ needsShop(req.route) /\ trim(OrEmpty(get(req.url.params, kShop)).val) = <<>>

NoTokenResolved == ctx.lookup.asked /\ ctx.token = ""

UpstreamFailed ==
    \/ ctx.exchAsked /\ ~exchangeOutcome(ctx.exch, ctx.at, NoCache).ok
    \/ ctx.gqlAsked /\ ~getStockAtLocation(req.route, ctx.gql).ok

\* The statuses of the error classes the request is in; 200 when in none.
PrescribedStatuses ==
    LET errors == (IF ConfigMissing THEN {500} ELSE {})
                  \cup (IF SignatureBad \/ NoTokenResolved THEN {401} ELSE {})
                  \cup (IF InputBad THEN {400} ELSE {})
                  \cup (IF UpstreamFailed THEN {502} ELSE {})
    IN  IF errors = {} THEN {200} ELSE errors

\* C9: every response of a loader has the status its error class prescribes:
\* 500 for missing configuration, 401 for a missing or invalid signature or
\* an unresolvable token, 400 for a bad variant or a missing required shop,
\* 502 for a failed exchange or query, and 200 only when none of these holds.
C9_StatusFollowsErrorClass ==
    (Answered /\ outcome.kind = "response")
        => outcome.status \in PrescribedStatuses

\* C10: every invocation of a loader ends by returning a response with a
\* status: no exception escapes and no path returns nothing.
C10_AlwaysAResponse ==
    Answered => (outcome.kind = "response" /\ outcome.status \in 200..599)

(***************************************************************************)
(* Claims about the offline session lookup                                 *)
(***************************************************************************)
\* The session storage has answered the lookup of the request in hand, and
\* none of its calls rejected.
LookupAnswered == ctx.lookup.asked /\ ~ctx.lookup.fails /\ ~ctx.lookup.fails2

\* The positions of the stored sessions that are offline and carry a token.
OfflineWithToken(sessions) ==
    {i \in 1..Len(sessions) :
       ~sessions[i].isOnline /\ sessions[i].accessToken # ""}

\* The token of the first of them, "" (absent) when there is none.
FirstOfflineToken(sessions) ==
    IF OfflineWithToken(sessions) = {} THEN ""
    ELSE LET first == CHOOSE i \in OfflineWithToken(sessions) :
                        \A j \in OfflineWithToken(sessions) : i <= j
         IN  sessions[first].accessToken

\* C11: the offline session lookup returns the token of the first stored
\* session that is offline and has a non-empty token, returns absent without
\* throwing when there is none, and the loader turns absent into a 401
\* carrying a re-install hint.
C11_OfflineLookupFirstOfflineOr401 ==
    LookupAnswered =>
        /\ outcome.kind # "threw"
        /\ ctx.token = FirstOfflineToken(ctx.lookup.sessions)
        /\ ctx.token = "" =>
             /\ lpc = "done"
             /\ outcome.kind = "response"
             /\ outcome.status = 401
             /\ outcome.hint

(***************************************************************************)
(* Claims about the inventory query                                        *)
(***************************************************************************)
\* The Admin API has answered the inventory query of the request in hand.
QueryAnswered == lpc = "done" /\ ctx.gqlAsked /\ ctx.gql.arrived

\* Failure as the claim states it: a status outside 2xx, or a body whose
\* errors array is non-empty.
StatedFailure(resp) ==
    ~(resp.status \in 200..299) \/ (resp.json /\ resp.errors = "nonempty")

\* The quantity as the claim states it: the available field when it is a
\* number, otherwise 0.
StatedQuantity(resp) ==
    IF resp.json /\ resp.available.kind = "number" THEN resp.available.num ELSE 0

\* C12: getStockAtLocation fails exactly when the Admin API answers with a
\* non-2xx status or a non-empty errors array (an empty errors array
\* succeeds); on success the quantity is the numeric available field or 0,
\* and the response's available flag is qty > 0.
C12_QueryFailsOnlyOnStatusOrErrors ==
    QueryAnswered =>
        IF StatedFailure(ctx.gql)
        THEN outcome.kind = "response" /\ outcome.status = 502
        ELSE /\ outcome.kind = "response"
             /\ outcome.status = 200
             /\ outcome.qty = StatedQuantity(ctx.gql)
             /\ outcome.available = (outcome.qty > 0)

(***************************************************************************)
(* Claims about the location                                               *)
(***************************************************************************)
\* The inventory query of the request in hand has been sent.
QuerySent == lpc = "query" \/ (lpc = "done" /\ ctx.gqlAsked)

\* The country parameter as sent, "" when absent.
CountrySent == OrEmpty(get(req.url.params, kCountry)).val

\* Case folded away, so that comparing is case-insensitive.
LowerCased(s) ==
    [i \in 1..Len(s) |-> IF InSeq(Uppers, s[i]) THEN Lowers[IndexIn(Uppers, s[i])]
                                                ELSE s[i]]

\* The location as the claim states it.
StatedLocation ==
    IF LowerCased(CountrySent) \in {<<"u", "k">>, <<"g", "b">>} THEN env.UK_LOCATION_ID
    ELSE IF LowerCased(CountrySent) = <<"u", "s">> THEN env.US_LOCATION_ID
    ELSE env.UK_LOCATION_ID

\* C13: the location used for the inventory query is the UK location id for
\* country UK or GB in any case, the US location id for US, and the UK
\* location id for every other value, an absent country included.
C13_LocationFollowsCountry ==
    QuerySent =>
        /\ ctx.locationId = StatedLocation
        /\ (lpc = "done" /\ outcome.status = 200)
             => outcome.locationId = Number(StatedLocation)

\* A request with country=Us has been answered 200 from the US location, in
\* a deployment whose two location ids differ.
C13_Witness ==
    /\ lpc = "done"
    /\ outcome.status = 200
    /\ CountrySent = <<"U", "s">>
    /\ env.US_LOCATION_ID = Str(<<"2", "2">>)
    /\ env.UK_LOCATION_ID = Str(<<"1", "1">>)
    /\ outcome.locationId = [nan |-> FALSE, num |-> 22]

(***************************************************************************)
(* Claims about concurrent calls of getAdminAccessToken                    *)
(***************************************************************************)
\* A step in which caller c's exchange completes.
ExchangeCompletes(c) == call[c].pc = "fetching" /\ call'[c].pc = "idle"

\* The other callers are where they were.
OthersUntouched(c) ==
    \A d \in Callers \ {c} : call'[d].pc = call[d].pc /\ call'[d].at = call[d].at

\* C14: concurrent calls that find the cache stale do not wait on one
\* another: each sends its own exchange at once and returns the token of its
\* own exchange; the cache holds nothing or one complete pair written by a
\* single successful exchange, and after each successful exchange it is that
\* exchange's pair, whatever another exchange wrote before (last write wins).
C14_RacingExchangesLastWriteWins ==
    [][/\ \A c \in Callers :
            (call[c].pc = "idle" /\ call'[c].pc = "fetching") =>
                /\ ~BeyondMargin(cachedToken, now)
                /\ exchanges' = exchanges + 1
                /\ cachedToken' = cachedToken
                /\ OthersUntouched(c)
       /\ \A c \in Callers :
            ExchangeCompletes(c) =>
                /\ OthersUntouched(c)
                /\ lastDone'.sent
                /\ IF GoodExchange(lastDone'.resp)
                   THEN /\ lastDone'.pc = "returned"
                        /\ lastDone'.ret = lastDone'.resp.access_token.str
                        /\ cachedToken' =
                             [present |-> TRUE,
                              token |-> lastDone'.resp.access_token.str,
                              expiresAtMs |-> call[c].at + SpecTtl(lastDone'.resp)]
                   ELSE /\ lastDone'.pc = "threw"
                        /\ cachedToken' = cachedToken
       /\ cachedToken'.present =>
            /\ cachedToken'.token \in {"tokA", "tokB"}
            /\ cachedToken'.expiresAtMs > 0]_vars

\* Two calls found no usable token and raced: the exchange that completed
\* last overwrote the token the other had just stored, with an earlier expiry.
C14_Witness ==
    /\ lastDone.any /\ lastDone.sent /\ ~lastDone.alone
    /\ lastDone.pc = "returned"
    /\ ~lastDone.seen.present
    /\ lastDone.before.present
    /\ lastDone.before.token # cachedToken.token
    /\ lastDone.before.expiresAtMs > cachedToken.expiresAtMs
    /\ cachedToken.token = lastDone.ret

(***************************************************************************)
(* Claims about the calls one request causes                               *)
(***************************************************************************)
\* The orders in which one request may verify, resolve a token and query:
\* each at most once, verification first, the query last.
OrderedCalls ==
    {<<>>, <<"verify">>,
     <<"verify", "sessions">>, <<"verify", "exchange">>, <<"verify", "query">>,
     <<"verify", "sessions", "query">>, <<"verify", "exchange", "query">>}

\* The request in hand was rejected for its signature, its input or the
\* configuration.
Rejected ==
    /\ lpc = "done"
    /\ outcome.kind = "response"
    /\ \/ outcome.status \in {400, 500}
       \/ outcome.status = 401 /\ outcome.error = "Invalid signature"

\* C15: one request causes at most one token exchange and at most one
\* inventory query, in the order verification, token resolution, query, with
\* no retry after an upstream failure; a request rejected for its signature,
\* its input or the configuration causes no outbound call and no change of
\* the token cache.
C15_OneExchangeOneQueryInOrder ==
    [][/\ trace' \in OrderedCalls
       /\ Rejected' => trace' \in {<<>>, <<"verify">>}
       /\ cachedToken' # cachedToken =>
            /\ lpc = "exchange"
            /\ trace = <<"verify", "exchange">>
            /\ ~Rejected'
       /\ exchanges' # exchanges =>
            /\ exchanges' = exchanges + 1
            /\ lpc = "idle" /\ lpc' = "exchange"
       /\ trace' # trace =>
            \/ lpc = "idle"
            \/ lpc = "done" /\ trace' = <<>>
            \/ lpc \in {"sessions", "exchange"} /\ lpc' = "query"
                 /\ trace' = trace \o <<"query">>
       /\ lpc = "done" => lpc' = "idle"]_vars

\* A request exchanged a token, stored it, and its inventory query failed:
\* it was answered 502 after one exchange and one query.
C15_Witness ==
    /\ lpc = "done"
    /\ outcome.status = 502
    /\ trace = <<"verify", "exchange", "query">>
    /\ cachedToken.present
    /\ exchanges = 1

====
